---- MODULE Spec2Model ----
(***************************************************************************)
(* Model of src/app.py: the Streamlit "Social Media Script Generator".     *)
(*                                                                         *)
(* A render cycle is one execution of main() for one browser session.      *)
(* Streamlit runs every session's script in a thread of the same process,  *)
(* so the sessions' render cycles interleave; the only state they share    *)
(* is os.environ.  A session's cycle is split where it touches shared      *)
(* state or waits for the external service:                                *)
(*   "wait"  between two render cycles (the page is displayed)             *)
(*   "L13"   about to write os.environ["OPENAI_API_KEY"]                   *)
(*   "L14"   about to construct ChatOpenAI, which reads the environment    *)
(*   "L97"   widgets read, about to test the button                        *)
(*   "L101"  chain.invoke(...) in flight                (Generating)       *)
(*   "L102"  the call returned, about to show the script     (Done)        *)
(*   "L106"  the call raised, about to show the error       (Failed)       *)
(* An optional Python value is a sequence: None is <<>>, a value v <<v>>.  *)
(***************************************************************************)
EXTENDS Integers, Sequences, FiniteSets, TLC

VARIABLES
    env,        \* os.environ, a function from variable names to strings
    pc,         \* pc[s]: where session s's script run stands
    cycle,      \* cycle[s]: number of render cycles session s has started
    api_key,    \* api_key[s]: value of the sidebar text_input (line 69)
    clicked,    \* clicked[s]: value st.button returns in this run (line 97)
    llm,        \* llm[s]: local llm of main(), None or the client
    chain,      \* chain[s]: local chain of main(), None or the chain
    req,        \* req[s]: locals content_type .. duration, None or a record
    wire,       \* wire[s]: message between the client and the service
    script,     \* script[s]: local script of main() (line 101)
    exc,        \* exc[s]: local e of the except clause (line 105)
    display,    \* display[s]: elements the current run has put on the page
    calls,      \* number of requests sent to the external service
    triggers,   \* number of render cycles that pressed Generate with a
                \* credential and all six fields present
    failures    \* number of calls of the external service that raised

vars == <<env, pc, cycle, api_key, clicked, llm, chain, req, wire, script,
          exc, display, calls, triggers, failures>>

----------------------------------------------------------------------------
(* Bounds of the model *)

Sessions == {1, 2}

\* render cycles started by all sessions together
MaxCycles == 2

\* labels a user selects in the multiselect
MaxAudience == 2

\* what the users type and pick
\* the credential field of session s: left empty, or the user's own key
KeySample(s) == {"", IF s = 1 THEN "sk-A" ELSE "sk-B"}
TopicSample == {"", "coffee brewing"}
CategorySample == {"Education", "Travel"}
AudienceSample == {"Students", "Professionals", "Seniors"}

\* os.environ["OPENAI_API_KEY"] when the process starts: unset, or exported
PresetKeys == {"sk-env"}

\* what the external service answers
ResponseSample == {"Title: Brew\nScript: Grind, pour, wait.",
                   "  \nTitle: T\n\nScript:\n"}
ErrorSample == {[cls |-> "AuthenticationError", msg |-> "Incorrect API key provided"],
                [cls |-> "APIConnectionError", msg |-> "Connection error."]}

----------------------------------------------------------------------------
(* Python values *)

None == <<>>
Some(v) == <<v>>

\* truth value of a str, a list and an int
StrTruthy(x) == x # ""
ListTruthy(x) == x # <<>>
IntTruthy(x) == x # 0

\* str.lower() on the option labels of the select boxes
Lower(x) ==
    CASE x = "YouTube" -> "youtube"
      [] x = "Instagram" -> "instagram"
      [] x = "Reel" -> "reel"
      [] x = "Video" -> "video"
      [] OTHER -> x

Digit(d) ==
    CASE d = 0 -> "0" [] d = 1 -> "1" [] d = 2 -> "2" [] d = 3 -> "3"
      [] d = 4 -> "4" [] d = 5 -> "5" [] d = 6 -> "6" [] d = 7 -> "7"
      [] d = 8 -> "8" [] d = 9 -> "9"

\* str(n) of a non-negative int, as the template formatting applies it
RECURSIVE IntToStr(_)
IntToStr(n) == IF n < 10 THEN Digit(n) ELSE IntToStr(n \div 10) \o Digit(n % 10)

\* a join that ends every element, the last one too, with the separator
RECURSIVE JoinTrailing(_, _)
JoinTrailing(sep, xs) ==
    IF xs = <<>> THEN "" ELSE xs[1] \o sep \o JoinTrailing(sep, Tail(xs))

\* sep.join(xs)
RECURSIVE Join(_, _)
Join(sep, xs) ==
    IF xs = <<>> THEN ""
    ELSE IF Len(xs) = 1 THEN xs[1]
    ELSE xs[1] \o sep \o Join(sep, Tail(xs))

\* issubclass(cls, base) for the exception classes the client raises
BaseOf(cls) ==
    CASE cls = "AuthenticationError" -> "APIStatusError"
      [] cls = "RateLimitError" -> "APIStatusError"
      [] cls = "APIStatusError" -> "APIError"
      [] cls = "APIConnectionError" -> "APIError"
      [] cls = "APIError" -> "OpenAIError"
      [] cls = "OpenAIError" -> "Exception"
      [] cls = "Exception" -> "BaseException"
      [] OTHER -> "object"

RECURSIVE IsSubclass(_, _)
IsSubclass(cls, base) ==
    IF cls = base THEN TRUE
    ELSE IF cls = "object" THEN FALSE
    ELSE IsSubclass(BaseOf(cls), base)

----------------------------------------------------------------------------
(* Setup and configuration, lines 11-14 *)

EnvVar == "OPENAI_API_KEY"
ModelName == "gpt-4o-mini-0125"
Temperature == "0.5"

EmptyEnv == [n \in {} |-> ""]

\* os.environ[name] = value
SetItem(e, name, value) ==
    [n \in DOMAIN e \cup {name} |-> IF n = name THEN value ELSE e[n]]

\* ChatOpenAI(temperature=0.5, model_name=...): the client takes its
\* credential from the environment when it is constructed
ChatOpenAI(e) ==
    [openai_api_key |-> IF EnvVar \in DOMAIN e THEN e[EnvVar] ELSE "",
     temperature |-> Temperature,
     model_name |-> ModelName]

----------------------------------------------------------------------------
(* The prompt template, lines 20-35, and the chain, lines 38-40 *)

Lit(text) == [lit |-> text, var |-> ""]
Var(name) == [lit |-> "", var |-> name]

define_prompt_template ==
    << Lit("You are a social media script writer. \n                    Write a "),
       Var("format"),
       Lit(" script for "),
       Var("content_type"),
       Lit(" about "),
       Var("topic"),
       Lit(".\n                    The category of the topic is "),
       Var("category"),
       Lit(", the target audience includes "),
       Var("audience"),
       Lit(", and\n                    the duration is "),
       Var("duration"),
       Lit(" seconds.\n                    Generate an appropriate title as well for the generated content.\n\n                    Output format:\n                    Title:\n                    Script:\n         ") >>

prompt == define_prompt_template

\* the template's text with every placeholder replaced by args[placeholder]
RECURSIVE FormatTemplate(_, _)
FormatTemplate(tpl, args) ==
    IF tpl = <<>> THEN ""
    ELSE (IF Head(tpl).var = "" THEN Head(tpl).lit ELSE args[Head(tpl).var])
         \o FormatTemplate(Tail(tpl), args)

\* prompt | llm | StrOutputParser()
create_chain(client) ==
    [prompt |-> prompt, llm |-> client, parser |-> "StrOutputParser"]

\* a parser that strips the text
StrOutputParserStripped(message) ==
    IF message.content = "  \nTitle: T\n\nScript:\n" THEN "Title: T\n\nScript:"
    ELSE message.content

\* StrOutputParser: the text of the model's message
StrOutputParser(message) == message.content

----------------------------------------------------------------------------
(* generate_script, lines 46-56: the request chain.invoke sends *)

InvokeArgs(content_type, topic, category, audience, format, duration) ==
    [content_type |-> content_type,
     topic |-> topic,
     category |-> category,
     audience |-> Join(", ", audience),
     format |-> format,
     duration |-> IntToStr(duration)]

generate_script(content_type, topic, category, audience, format, duration, ch) ==
    [kind |-> "request",
     api_key |-> ch.llm.openai_api_key,
     model |-> ch.llm.model_name,
     temperature |-> ch.llm.temperature,
     content |-> FormatTemplate(ch.prompt,
                    InvokeArgs(content_type, topic, category, audience,
                               format, duration))]

Reply(text) ==
    [kind |-> "reply", api_key |-> "", model |-> ModelName,
     temperature |-> Temperature, content |-> text]

----------------------------------------------------------------------------
(* The widgets of main(), lines 77-95 *)

ContentTypeOptions == {"YouTube", "Instagram"}
CategoryOptions == {"Fashion", "Education", "Technology", "Health", "Travel"}
AudienceOptions == {"Students", "Housewives", "Professionals", "Teenagers", "Seniors"}
FormatOptions == {"Reel", "Video"}

SliderMin == 15
SliderMax == 300
SliderStep == 5

\* a slider that runs one step past max_value
SliderValuesPastMax(lo, hi, step) ==
    {lo + step * k : k \in 0 .. ((hi - lo) \div step) + 1}

\* the values st.slider(min_value, max_value, step) can return
SliderValues(lo, hi, step) ==
    {lo + step * k : k \in 0 .. ((hi - lo) \div step)}

SetMin(S) == CHOOSE x \in S : \A y \in S : x <= y
SetMax(S) == CHOOSE x \in S : \A y \in S : y <= x

\* the positions of the slider the users try: both ends and the fourth stop
SliderPicks(S) ==
    {v \in S : v = SetMin(S) \/ v = SetMax(S) \/ v = SetMin(S) + 3 * SliderStep}

\* the lists st.multiselect can return: distinct labels, in selection order
Selections(labels, n) ==
    {xs \in UNION {[1..k -> labels] : k \in 0..n} :
        \A i, j \in DOMAIN xs : i # j => xs[i] # xs[j]}

\* what the six widgets can return together, each drawn from its choices
Forms(cts, topics, cats, labels, n, fmts, durs) ==
    [content_type : cts, topic : topics, category : cats,
     audience : Selections(labels, n), format : fmts, duration : durs]

\* every widget over all its options, the slider over all its stops
AllForms ==
    Forms(ContentTypeOptions, TopicSample, CategoryOptions, AudienceOptions,
          MaxAudience, FormatOptions,
          SliderValues(SliderMin, SliderMax, SliderStep))

\* the form filling the sampled ones start from
BaseForm ==
    [content_type |-> "YouTube", topic |-> "coffee brewing",
     category |-> "Education", audience |-> <<"Students", "Professionals">>,
     format |-> "Reel", duration |-> 30]

Differences(f, g) ==
    Cardinality({k \in DOMAIN f : f[k] # g[k]})

\* a complete form and one whose topic was left empty
FormPair == {BaseForm, [BaseForm EXCEPT !.topic = ""]}

\* the sampled form fillings: BaseForm with at most one widget changed
FormSample ==
    {f \in Forms(ContentTypeOptions, TopicSample,
                 CategoryOptions \cap CategorySample,
                 AudienceOptions \cap AudienceSample, MaxAudience, FormatOptions,
                 SliderPicks(SliderValues(SliderMin, SliderMax, SliderStep))) :
        Differences(f, BaseForm) <= 1}

----------------------------------------------------------------------------
(* The page *)

Element(kind, text) == [kind |-> kind, text |-> text]

Kinds(d) == {d[i].kind : i \in DOMAIN d}

\* lines 64-68
PageHeader ==
    << Element("title", "Social Media Script Generator"),
       Element("write", "This app generates scripts for social media content using OpenAI's gpt-4o-mini-0125 model."),
       Element("sidebar.title", "Configuration") >>

KeyWarning == Element("warning", "Please enter your OpenAI API key in the sidebar.")
FieldsWarning == Element("warning", "Please fill in all the fields.")

\* lines 102-104
SuccessElements(text) ==
    << Element("success", "Script generated successfully!"),
       Element("subheader", "Generated Script"),
       Element("write", text) >>

\* line 106: str(e) is the message of the exception
ErrorElement(e) == Element("error", "An error occurred: " \o e.msg)

\* an exception that leaves main() is shown by the script runner
UncaughtElement(e) == Element("exception", e.cls \o ": " \o e.msg)

----------------------------------------------------------------------------
(* Decisions of main() *)

\* a run that goes on without a credential
KeyGivenAlways(key) == TRUE

\* line 71: if api_key
KeyGiven(key) == StrTruthy(key)

\* a run that generates whether or not the button was pressed
ButtonPressedAlways(b) == TRUE

\* line 97: if st.button(...)
ButtonPressed(b) == b

\* a presence check that forgets the audience
FieldsPresentNoAudience(r) ==
    /\ StrTruthy(r.content_type)
    /\ StrTruthy(r.category)
    /\ StrTruthy(r.format)
    /\ IntTruthy(r.duration)
    /\ StrTruthy(r.topic)

\* line 98: if content_type and category and audience and format and duration and topic
FieldsPresent(r) ==
    /\ StrTruthy(r.content_type)
    /\ StrTruthy(r.category)
    /\ ListTruthy(r.audience)
    /\ StrTruthy(r.format)
    /\ IntTruthy(r.duration)
    /\ StrTruthy(r.topic)

\* a handler for the client's status errors only
HandlerCatchesStatusErrors(e) == IsSubclass(e.cls, "APIStatusError")

\* line 105: except Exception
HandlerCatches(e) == IsSubclass(e.cls, "Exception")

----------------------------------------------------------------------------
(* Initial state: the process has started, no session has run the script *)

Init ==
    /\ env \in {EmptyEnv} \cup {SetItem(EmptyEnv, EnvVar, k) : k \in PresetKeys}
    /\ pc = [s \in Sessions |-> "wait"]
    /\ cycle = [s \in Sessions |-> 0]
    /\ api_key = [s \in Sessions |-> ""]
    /\ clicked = [s \in Sessions |-> FALSE]
    /\ llm = [s \in Sessions |-> None]
    /\ chain = [s \in Sessions |-> None]
    /\ req = [s \in Sessions |-> None]
    /\ wire = [s \in Sessions |-> None]
    /\ script = [s \in Sessions |-> None]
    /\ exc = [s \in Sessions |-> None]
    /\ display = [s \in Sessions |-> <<>>]
    /\ calls = 0
    /\ triggers = 0
    /\ failures = 0

CyclesStarted == cycle[1] + cycle[2]

\* a return that keeps the script and the exception of the run
ReturnKeepsResult(s) ==
    /\ pc' = [pc EXCEPT ![s] = "wait"]
    /\ clicked' = [clicked EXCEPT ![s] = FALSE]
    /\ llm' = [llm EXCEPT ![s] = None]
    /\ chain' = [chain EXCEPT ![s] = None]
    /\ req' = [req EXCEPT ![s] = None]
    /\ wire' = [wire EXCEPT ![s] = None]
    /\ UNCHANGED <<script, exc>>

\* main() returns: its locals are gone, the button is released
Return(s) ==
    /\ pc' = [pc EXCEPT ![s] = "wait"]
    /\ clicked' = [clicked EXCEPT ![s] = FALSE]
    /\ llm' = [llm EXCEPT ![s] = None]
    /\ chain' = [chain EXCEPT ![s] = None]
    /\ req' = [req EXCEPT ![s] = None]
    /\ wire' = [wire EXCEPT ![s] = None]
    /\ script' = [script EXCEPT ![s] = None]
    /\ exc' = [exc EXCEPT ![s] = None]

----------------------------------------------------------------------------
(* Actions *)

\* lines 62-71 and 109-110: an interaction of session s's user starts a
\* script run; without a credential the run ends with the warning
Render(s) ==
    /\ pc[s] = "wait"
    /\ CyclesStarted < MaxCycles
    /\ \E key \in KeySample(s), b \in BOOLEAN :
        /\ cycle' = [cycle EXCEPT ![s] = @ + 1]
        /\ api_key' = [api_key EXCEPT ![s] = key]
        /\ IF KeyGiven(key)
           THEN /\ pc' = [pc EXCEPT ![s] = "L13"]
                /\ clicked' = [clicked EXCEPT ![s] = b]
                /\ display' = [display EXCEPT ![s] = PageHeader]
                /\ UNCHANGED <<llm, chain, req, wire, script, exc>>
           ELSE /\ display' = [display EXCEPT ![s] = Append(PageHeader, KeyWarning)]
                /\ Return(s)
    /\ UNCHANGED <<env, calls, triggers, failures>>

\* line 13
SetEnv(s) ==
    /\ pc[s] = "L13"
    /\ env' = SetItem(env, EnvVar, api_key[s])
    /\ pc' = [pc EXCEPT ![s] = "L14"]
    /\ UNCHANGED <<cycle, api_key, clicked, llm, chain, req, wire, script, exc,
                   display, calls, triggers, failures>>

\* lines 14 and 74-95: the client and the chain are built, the widgets read;
\* forms is the set of form fillings the users of the model try
Construct(s, forms) ==
    /\ pc[s] = "L14"
    /\ llm' = [llm EXCEPT ![s] = Some(ChatOpenAI(env))]
    /\ chain' = [chain EXCEPT ![s] = Some(create_chain(ChatOpenAI(env)))]
    /\ \E w \in forms :
        req' = [req EXCEPT ![s] =
                  Some([content_type |-> Lower(w.content_type), topic |-> w.topic,
                        category |-> w.category, audience |-> w.audience,
                        format |-> Lower(w.format), duration |-> w.duration])]
    /\ pc' = [pc EXCEPT ![s] = "L97"]
    /\ UNCHANGED <<env, cycle, api_key, clicked, wire, script, exc, display,
                   calls, triggers, failures>>

\* the condition under which the specification counts a trigger
TriggerFired(s) ==
    /\ clicked[s]
    /\ api_key[s] # ""
    /\ LET r == req[s][1] IN
        /\ r.content_type # "" /\ r.topic # "" /\ r.category # ""
        /\ Len(r.audience) > 0 /\ r.format # "" /\ r.duration # 0

\* lines 97-101 and 107-108: the button and the presence check; a complete
\* request is sent to the service
Submit(s) ==
    /\ pc[s] = "L97"
    /\ triggers' = IF TriggerFired(s) THEN triggers + 1 ELSE triggers
    /\ LET r == req[s][1] IN
       IF ButtonPressed(clicked[s])
       THEN IF FieldsPresent(r)
            THEN /\ wire' = [wire EXCEPT ![s] =
                       Some(generate_script(r.content_type, r.topic, r.category,
                                            r.audience, r.format, r.duration,
                                            chain[s][1]))]
                 /\ calls' = calls + 1
                 /\ pc' = [pc EXCEPT ![s] = "L101"]
                 /\ UNCHANGED <<clicked, llm, chain, req, script, exc, display>>
            ELSE /\ display' = [display EXCEPT ![s] = Append(@, FieldsWarning)]
                 /\ calls' = calls
                 /\ Return(s)
       ELSE /\ UNCHANGED <<display, calls>>
            /\ Return(s)
    /\ UNCHANGED <<env, cycle, api_key, failures>>

\* line 101: the service answers, or the call raises
Respond(s) ==
    /\ pc[s] = "L101"
    /\ \/ \E text \in ResponseSample :
            /\ wire' = [wire EXCEPT ![s] = Some(Reply(text))]
            /\ script' = [script EXCEPT ![s] = Some(StrOutputParser(Reply(text)))]
            /\ pc' = [pc EXCEPT ![s] = "L102"]
            /\ failures' = failures
            /\ UNCHANGED <<clicked, llm, chain, req, exc, display>>
       \/ \E e \in ErrorSample :
            /\ failures' = failures + 1
            /\ IF HandlerCatches(e)
               THEN /\ exc' = [exc EXCEPT ![s] = Some(e)]
                    /\ wire' = [wire EXCEPT ![s] = None]
                    /\ pc' = [pc EXCEPT ![s] = "L106"]
                    /\ UNCHANGED <<clicked, llm, chain, req, script, display>>
               ELSE /\ display' = [display EXCEPT ![s] = Append(@, UncaughtElement(e))]
                    /\ Return(s)
    /\ UNCHANGED <<env, cycle, api_key, calls, triggers>>

\* lines 102-104
ShowScript(s) ==
    /\ pc[s] = "L102"
    /\ display' = [display EXCEPT ![s] = @ \o SuccessElements(script[s][1])]
    /\ Return(s)
    /\ UNCHANGED <<env, cycle, api_key, calls, triggers, failures>>

\* lines 105-106
ShowError(s) ==
    /\ pc[s] = "L106"
    /\ display' = [display EXCEPT ![s] = Append(@, ErrorElement(exc[s][1]))]
    /\ Return(s)
    /\ UNCHANGED <<env, cycle, api_key, calls, triggers, failures>>

Next ==
    \E s \in Sessions :
        \/ Render(s)
        \/ SetEnv(s)
        \/ Construct(s, FormSample)
        \/ Submit(s)
        \/ Respond(s)
        \/ ShowScript(s)
        \/ ShowError(s)

Spec == Init /\ [][Next]_vars

\* the sessions with two form fillings, a complete and an incomplete one
NextFair ==
    \E s \in Sessions :
        \/ Render(s)
        \/ SetEnv(s)
        \/ Construct(s, FormPair)
        \/ Submit(s)
        \/ Respond(s)
        \/ ShowScript(s)
        \/ ShowError(s)

\* every script thread keeps running, and the external call returns or raises
FairSpec ==
    /\ Init /\ [][NextFair]_vars
    /\ \A s \in Sessions :
        WF_vars(Respond(s)) /\ WF_vars(ShowScript(s)) /\ WF_vars(ShowError(s))

\* one session, one render cycle, every form filling
NextForm ==
    \/ cycle[1] = 0 /\ Render(1)
    \/ SetEnv(1)
    \/ Construct(1, AllForms)
    \/ Submit(1)
    \/ Respond(1)
    \/ ShowScript(1)
    \/ ShowError(1)

FormSpec == Init /\ [][NextForm]_vars

----------------------------------------------------------------------------
(* Properties *)

Elements(d) == {d[i] : i \in DOMAIN d}

AnyFieldEmpty(r) ==
    \/ r.content_type = "" \/ r.topic = "" \/ r.category = ""
    \/ r.audience = <<>> \/ r.format = "" \/ r.duration = 0

\* the decimal text of every stop of the duration slider, in order
DurationTexts ==
    <<
       "15", "20", "25", "30", "35", "40", "45", "50", "55", "60",
       "65", "70", "75", "80", "85", "90", "95", "100", "105", "110",
       "115", "120", "125", "130", "135", "140", "145", "150", "155", "160",
       "165", "170", "175", "180", "185", "190", "195", "200", "205", "210",
       "215", "220", "225", "230", "235", "240", "245", "250", "255", "260",
       "265", "270", "275", "280", "285", "290", "295", "300" >>

ExpectedDuration(d) == DurationTexts[((d - 15) \div 5) + 1]

\* the labels in selection order, separated by a comma and a space
ExpectedAudience(a) ==
    CASE Len(a) = 1 -> a[1]
      [] Len(a) = 2 -> a[1] \o ", " \o a[2]
      [] Len(a) = 3 -> a[1] \o ", " \o a[2] \o ", " \o a[3]
      [] OTHER -> ""

\* the template of lines 23-32 with the six values written in
ExpectedPrompt(r) ==
    "You are a social media script writer. \n"
    \o "                    Write a " \o r.format \o " script for "
    \o r.content_type \o " about " \o r.topic \o ".\n"
    \o "                    The category of the topic is " \o r.category
    \o ", the target audience includes " \o ExpectedAudience(r.audience) \o ", and\n"
    \o "                    the duration is " \o ExpectedDuration(r.duration) \o " seconds.\n"
    \o "                    Generate an appropriate title as well for the generated content.\n"
    \o "\n"
    \o "                    Output format:\n"
    \o "                    Title:\n"
    \o "                    Script:\n"
    \o "         "

\* C1: a render cycle whose credential field is empty ends at once with the
\* credential warning: it builds neither the client nor the chain, sends
\* nothing to the service, and no later stage of main() is ever reached
\* with an empty credential.
C1_NoCredentialNoCall ==
    [][\A s \in Sessions :
        /\ (cycle'[s] # cycle[s] /\ api_key'[s] = "") =>
              /\ pc'[s] = "wait"
              /\ llm'[s] = None /\ chain'[s] = None /\ wire'[s] = None
              /\ calls' = calls
              /\ display'[s] = Append(PageHeader, KeyWarning)
        /\ (pc'[s] # "wait") => api_key'[s] # ""
        /\ (calls' # calls /\ pc'[s] = "L101" /\ pc[s] # "L101") => api_key[s] # ""
      ]_vars

\* a session that generated a script, then cleared the credential field
C1_Witness ==
    \E s \in Sessions :
        /\ cycle[s] = 2 /\ pc[s] = "wait" /\ api_key[s] = ""
        /\ calls = 1
        /\ display[s] = Append(PageHeader, KeyWarning)

\* C2: with a credential, pressing Generate while a field is empty only
\* shows the fields warning: nothing is sent, no script and no error is
\* shown (an empty audience selection included); and a request is sent only
\* from a state in which all six fields are non-empty.
C2_IncompleteIsNoOp ==
    [][\A s \in Sessions :
        /\ (pc[s] = "L97" /\ pc'[s] # "L97" /\ clicked[s] /\ AnyFieldEmpty(req[s][1])) =>
              /\ pc'[s] = "wait"
              /\ calls' = calls
              /\ wire'[s] = None
              /\ display'[s] = Append(PageHeader, FieldsWarning)
        /\ (pc[s] # "L101" /\ pc'[s] = "L101") =>
              /\ calls' = calls + 1
              /\ ~AnyFieldEmpty(req'[s][1])
              /\ clicked[s]
        /\ (calls' # calls) => (\E t \in Sessions : pc[t] = "L97" /\ pc'[t] = "L101")
      ]_vars

\* Generate was pressed on an incomplete form: the warning, and no call
C2_Witness ==
    \E s \in Sessions :
        /\ pc[s] = "wait" /\ api_key[s] # ""
        /\ display[s] = Append(PageHeader, FieldsWarning)
        /\ calls = 0 /\ cycle[s] = 2

\* C3: the number of requests sent equals the number of render cycles in
\* which Generate was pressed with a credential and all six fields present;
\* a failure or a success causes no further request.
C3_OneCallPerTrigger ==
    /\ calls = triggers
    /\ failures <= calls
    /\ calls <= CyclesStarted

\* two triggers, the first of which failed, and two calls
C3_Witness ==
    /\ calls = 2 /\ triggers = 2 /\ failures = 1
    /\ \A s \in Sessions : pc[s] = "wait"

\* C4: when the call raises, the run shows exactly one error element with
\* the error's text after "An error occurred: ", no success indicator and
\* no script; nothing escapes main(), and the session returns to waiting.
C4_FailureIsShownOnce ==
    [][\A s \in Sessions :
        /\ (pc[s] = "L101" /\ pc'[s] \notin {"L101", "L102"}) =>
              /\ pc'[s] = "L106"
              /\ failures' = failures + 1
              /\ exc'[s] # None
              /\ exc'[s][1] \in ErrorSample
              /\ display'[s] = display[s]
        /\ (pc[s] = "L106" /\ pc'[s] # "L106") =>
              /\ pc'[s] = "wait"
              /\ display'[s] =
                    Append(PageHeader,
                           Element("error", "An error occurred: " \o exc[s][1].msg))
              /\ calls' = calls
        /\ "exception" \notin Kinds(display'[s])
      ]_vars

\* a session whose first call failed has a second call in flight
C4_Witness ==
    \E s \in Sessions :
        /\ failures = 1 /\ cycle[s] = 2 /\ pc[s] = "L101" /\ calls = 2

\* C5: the prompt sent is the fixed template with each of the six
\* placeholders replaced by the field's value, the audience labels in
\* selection order joined by ", " without leading or trailing separator.
C5_PromptIsTemplate ==
    \A s \in Sessions :
        pc[s] = "L101" =>
            /\ wire[s] # None
            /\ wire[s][1].kind = "request"
            /\ wire[s][1].content = ExpectedPrompt(req[s][1])

\* the request for a reel for youtube, one label selected, the longest duration
C5_Witness ==
    /\ pc[1] = "L101"
    /\ req[1][1].audience = <<"Seniors">>
    /\ req[1][1].duration = 300
    /\ req[1][1].format = "reel" /\ req[1][1].content_type = "youtube"
    /\ req[1][1].category = "Health"

\* C6: when the call returns, the script is the text of the reply as it
\* is, and the run shows the success indicator, the subheader and that
\* text, and neither a warning nor an error.
C6_ScriptShownVerbatim ==
    [][\A s \in Sessions :
        /\ (pc[s] = "L101" /\ pc'[s] = "L102") =>
              /\ wire'[s][1].kind = "reply"
              /\ script'[s] = Some(wire'[s][1].content)
        /\ (pc[s] = "L102" /\ pc'[s] # "L102") =>
              /\ pc'[s] = "wait"
              /\ display'[s] =
                    PageHeader \o
                    << Element("success", "Script generated successfully!"),
                       Element("subheader", "Generated Script"),
                       Element("write", wire[s][1].content) >>
      ]_vars

\* a reply that starts with blank space and ends with a line break is on
\* the page as it came
C6_Witness ==
    \E s \in Sessions :
        /\ pc[s] = "wait"
        /\ "success" \in Kinds(display[s])
        /\ Element("write", "  \nTitle: T\n\nScript:\n") \in Elements(display[s])

\* C7: a call in flight ends in exactly one of Done and Failed, in the same
\* render cycle, which then returns; the next render cycle starts Ready or
\* Idle with nothing of the earlier run: no script, no error, no success
\* indicator; and, the call returning or raising, every call in flight is
\* followed by the end of its run.
C7_StateMachine ==
    /\ [][\A s \in Sessions :
            /\ (pc[s] = "L101" /\ pc'[s] # "L101") =>
                  /\ cycle'[s] = cycle[s]
                  /\ \/ pc'[s] = "L102" /\ script'[s] # None /\ exc'[s] = None
                     \/ pc'[s] = "L106" /\ script'[s] = None /\ exc'[s] # None
            /\ (pc[s] \in {"L102", "L106"} /\ pc'[s] # pc[s]) =>
                  /\ pc'[s] = "wait" /\ cycle'[s] = cycle[s]
            /\ (cycle'[s] # cycle[s]) =>
                  /\ pc[s] = "wait"
                  /\ cycle'[s] = cycle[s] + 1
                  /\ \/ pc'[s] = "L13" /\ api_key'[s] # "" /\ display'[s] = PageHeader
                     \/ /\ pc'[s] = "wait" /\ api_key'[s] = ""
                        /\ display'[s] = Append(PageHeader, KeyWarning)
                  /\ script'[s] = None /\ exc'[s] = None /\ wire'[s] = None
                  /\ req'[s] = None
         ]_vars
    /\ \A s \in Sessions : (pc[s] = "L101") ~> (pc[s] = "wait")

\* the second render cycle of a session whose first one showed a script
C7_Witness ==
    \E s \in Sessions :
        /\ cycle[s] = 2 /\ calls = 1 /\ failures = 0
        /\ pc[s] = "L13" /\ display[s] = PageHeader /\ script[s] = None

\* C8, as claimed: when a render cycle with a credential ends,
\* OPENAI_API_KEY is the credential entered in that cycle; a cycle with
\* an empty credential leaves the variable as it was.
C8_EnvIsCyclesCredential ==
    [][\A s \in Sessions :
        /\ (pc[s] # "wait" /\ pc'[s] = "wait" /\ api_key[s] # "") =>
              (EnvVar \in DOMAIN env' /\ env'[EnvVar] = api_key[s])
        /\ (cycle'[s] # cycle[s] /\ api_key'[s] = "") => env' = env
      ]_vars

\* C9: the duration of a form is 15 + 5k and within 15..300; Generate on a
\* form whose other five fields are present sends a request at 15 and at
\* 300, and no request carries another kind of duration.
C9_DurationBounds ==
    [][\A s \in Sessions :
        /\ (req'[s] # None) =>
              /\ req'[s][1].duration \in 15..300
              /\ (req'[s][1].duration - 15) % 5 = 0
        /\ (/\ pc[s] = "L97" /\ pc'[s] # "L97" /\ clicked[s]
            /\ req[s][1].duration \in {15, 300}
            /\ req[s][1].topic # "" /\ req[s][1].audience # <<>>
            /\ req[s][1].content_type # "" /\ req[s][1].category # ""
            /\ req[s][1].format # "") =>
              /\ pc'[s] = "L101"
              /\ wire'[s] # None /\ wire'[s][1].kind = "request"
      ]_vars

\* a request with the longest duration is in flight
C9_Witness ==
    /\ pc[1] = "L101" /\ req[1][1].duration = 300
    /\ wire[1][1].kind = "request"
    /\ req[1][1].audience = <<"Teenagers", "Housewives">>

\* C10, as claimed: while a session's call is in flight, the client the
\* session built and the request it sent carry the credential entered in
\* that session.
C10_OwnCredential ==
    \A s \in Sessions :
        pc[s] = "L101" =>
            /\ llm[s][1].openai_api_key = api_key[s]
            /\ wire[s][1].api_key = api_key[s]

====
